---- MODULE Spec2Model ----
(***************************************************************************)
(* A model of the skip list of src/RequiredSkip.cpp, SkipList<unsigned,    *)
(* unsigned>.  The heap is a sequence of Node records; a pointer is an     *)
(* index into it and NULL is 0.  Every `new Node` appends one record.      *)
(***************************************************************************)
EXTENDS Integers, Sequences, FiniteSets, TLC

(* ---------------- bounds of the model ---------------- *)

\* number of successful inserts explored
MaxInserts == 4

\* the keys offered to insert and to the queries: the default key 0, 2 (no
\* promotion), 3 (two promotions), and 255 and 510 (0x01FE), which both
\* XOR-reduce to the byte 0xFF, so that flipCoin is true for every promotion
\* count
Keys == {0, 2, 3, 255, 510}
Values == {5, 6}

\* number of successful inserts of the long run
MaxLongInserts == 18
\* the keys of Keys that XOR-reduce to the byte 0xFF
AllHeadsKeys == {255, 510}

\* number of successful inserts of the runs with reads and teardown
MaxOpsInserts == 3
\* the keys these runs insert and query
OpsKeys == {0, 2, 3, 255}

\* number of successful inserts of the runs that build towers in every order
MaxTowerInserts == 4
\* keys of tower height 2, 1, 3, 2, 4 and (255) as tall as the cap allows
TowerKeys == {1, 2, 3, 5, 7, 255}

(* ---------------- program constants ---------------- *)

NULL == 0
\* Key() and Value() of unsigned: value-initialised to 0
DefaultKey == 0
DefaultValue == 0
InitialMaxLayerNum == 13
CapThreshold == 16

MsgTheKeyNotExist == "The key does not exist in the skip list."
MsgThisKeyNotExist == "This key does not exist in the skip list."
MsgLargest == "This key is the largest key in the skip list."
MsgSmallest == "This key is the smallest key in the skip list."

VARIABLES
    nodes,          \* the heap: Seq of Node
    top_left, top_right, bot_left, bot_right,
    listSize, layer_num, max_layer_num,
    call,           \* the last insert call: its arguments and what it returned
    log,            \* history: one record per insert call that returned true
    reading,        \* the last read operation: its argument and its result
    deleted         \* the nodes ~SkipList has deleted, in order; <<>> while alive

vars == <<nodes, top_left, top_right, bot_left, bot_right,
          listSize, layer_num, max_layer_num, call, log, reading, deleted>>
engine == <<nodes, top_left, top_right, bot_left, bot_right,
            listSize, layer_num, max_layer_num>>

Node(k, v, n, d, u) == [key |-> k, value |-> v, next |-> n, down |-> d, up |-> u]

(* ---------------- flipCoin ---------------- *)

RECURSIVE BitXor(_, _)
BitXor(a, b) ==
    IF a = 0 /\ b = 0 THEN 0
    ELSE (((a % 2) + (b % 2)) % 2) + 2 * BitXor(a \div 2, b \div 2)

RECURSIVE Pow2(_)
Pow2(n) == IF n = 0 THEN 1 ELSE 2 * Pow2(n - 1)

flipCoin(key, previousFlips) ==
    LET first8Bits == (key \div 16777216) % 256
        next8Bits == (key \div 65536) % 256
        andThen == (key \div 256) % 256
        lastBits == key % 256
        c == BitXor(BitXor(BitXor(first8Bits, next8Bits), andThen), lastBits)
        pf == previousFlips % 8
    IN  (c \div Pow2(pf)) % 2 # 0

(* ---------------- the search loops ---------------- *)

\* faulty variant of ScanRightLT: the scan compares with <= and walks past an equal key
RECURSIVE ScanRightLTInclusive(_, _, _)
ScanRightLTInclusive(h, cur, k) ==
    IF h[h[cur].next].next # NULL /\ h[h[cur].next].key <= k
    THEN ScanRightLTInclusive(h, h[cur].next, k)
    ELSE cur

\* while(currentNode->next->next != nullptr && currentNode->next->key < k)
RECURSIVE ScanRightLT(_, _, _)
ScanRightLT(h, cur, k) ==
    IF h[h[cur].next].next # NULL /\ h[h[cur].next].key < k
    THEN ScanRightLT(h, h[cur].next, k)
    ELSE cur

\* for(i = layer_num - 1; i >= 0; i--) { scan with <; if(i != 0) down }
RECURSIVE DescendLT(_, _, _, _)
DescendLT(h, cur, i, k) ==
    LET c == ScanRightLT(h, cur, k)
    IN  IF i # 0 THEN DescendLT(h, h[c].down, i - 1, k) ELSE c

\* while(... && currentNode->next->key <= k) { if(== k) hit; advance }
RECURSIVE ScanRightLE(_, _, _)
ScanRightLE(h, cur, k) ==
    IF h[h[cur].next].next # NULL /\ h[h[cur].next].key <= k
    THEN IF h[h[cur].next].key = k
         THEN [hit |-> TRUE, at |-> cur]
         ELSE ScanRightLE(h, h[cur].next, k)
    ELSE [hit |-> FALSE, at |-> cur]

\* the top-down loop of height, find, nextKey, isSmallestKey, isLargestKey:
\* hit at layer i with currentNode = at (the node before the match), or no
\* hit and currentNode = at on layer 0
RECURSIVE SearchLE(_, _, _, _)
SearchLE(h, cur, i, k) ==
    LET s == ScanRightLE(h, cur, k)
    IN  IF s.hit THEN [hit |-> TRUE, at |-> s.at, layer |-> i]
        ELSE IF i # 0 THEN SearchLE(h, h[s.at].down, i - 1, k)
        ELSE [hit |-> FALSE, at |-> s.at, layer |-> 0]

RECURSIVE DownBy(_, _, _)
DownBy(h, cur, n) == IF n = 0 THEN cur ELSE DownBy(h, h[cur].down, n - 1)

RECURSIVE DownToBase(_, _)
DownToBase(h, cur) == IF h[cur].down # NULL THEN DownToBase(h, h[cur].down) ELSE cur

RECURSIVE RightToLast(_, _)
RightToLast(h, cur) ==
    IF h[h[cur].next].next # NULL THEN RightToLast(h, h[cur].next) ELSE cur

\* the nodes met from n through next (the inner loop of ~SkipList)
RECURSIVE NextChain(_, _)
NextChain(h, n) == IF n = NULL THEN <<>> ELSE <<n>> \o NextChain(h, h[n].next)

\* the nodes met from n through down (current_layer_left in ~SkipList)
RECURSIVE DownChain(_, _)
DownChain(h, n) == IF n = NULL THEN <<>> ELSE <<n>> \o DownChain(h, h[n].down)

(* ---------------- results of the read operations ---------------- *)

Returns(x) == [ok |-> TRUE, val |-> x, err |-> ""]
Throws(msg) == [ok |-> FALSE, val |-> 0, err |-> msg]
ReturnsB(b) == [ok |-> TRUE, val |-> b, err |-> ""]
ThrowsB(msg) == [ok |-> FALSE, val |-> FALSE, err |-> msg]

(* ---------------- read operations ---------------- *)

size == listSize
isEmpty == listSize = 0
\* faulty variant of numLayers: the layers that may hold keys, without the empty top
numLayersBelowTop == layer_num - 1
numLayers == layer_num

\* faulty variant of height: the layer index of the hit instead of i + 1
heightAsLayerIndex(k) ==
    LET s == SearchLE(nodes, top_left, layer_num - 1, k)
    IN  IF s.hit THEN Returns(s.layer) ELSE Throws(MsgTheKeyNotExist)

height(k) ==
    LET s == SearchLE(nodes, top_left, layer_num - 1, k)
    IN  IF s.hit THEN Returns(s.layer + 1) ELSE Throws(MsgTheKeyNotExist)

\* faulty variant of find: the value of currentNode instead of currentNode->next
findAtCurrentNode(k) ==
    LET s == SearchLE(nodes, top_left, layer_num - 1, k)
    IN  IF s.hit THEN Returns(nodes[s.at].value)
        ELSE Throws(MsgTheKeyNotExist)

find(k) ==
    LET s == SearchLE(nodes, top_left, layer_num - 1, k)
    IN  IF s.hit THEN Returns(nodes[nodes[s.at].next].value)
        ELSE Throws(MsgTheKeyNotExist)

\* faulty variant of nextKey: the successor on the layer of the hit, without the
\* descent to the base layer
nextKeyNoDescent(k) ==
    LET s == SearchLE(nodes, top_left, layer_num - 1, k)
    IN  IF s.hit
        THEN Returns(nodes[nodes[nodes[s.at].next].next].key)
        ELSE IF nodes[s.at].key # k THEN Throws(MsgThisKeyNotExist)
        ELSE IF nodes[nodes[s.at].next].next = NULL THEN Throws(MsgLargest)
        ELSE Returns(nodes[nodes[s.at].next].key)

nextKey(k) ==
    LET s == SearchLE(nodes, top_left, layer_num - 1, k)
    IN  IF s.hit
        THEN LET cur == DownBy(nodes, nodes[s.at].next, s.layer)
             IN  Returns(nodes[nodes[cur].next].key)
        ELSE IF nodes[s.at].key # k THEN Throws(MsgThisKeyNotExist)
        ELSE IF nodes[nodes[s.at].next].next = NULL THEN Throws(MsgLargest)
        ELSE Returns(nodes[nodes[s.at].next].key)

previousKey(k) ==
    LET cur == DescendLT(nodes, top_left, layer_num - 1, k)
    IN  IF nodes[nodes[cur].next].key # k \/ nodes[cur].next = NULL
        THEN Throws(MsgThisKeyNotExist)
        ELSE IF cur = top_left /\ nodes[cur].down = NULL THEN Throws(MsgSmallest)
        ELSE Returns(nodes[cur].key)

RECURSIVE CollectKeys(_, _)
CollectKeys(h, cur) ==
    IF h[cur].next # NULL THEN <<h[cur].key>> \o CollectKeys(h, h[cur].next)
    ELSE <<>>

allKeysInOrder ==
    LET base == DownToBase(nodes, top_left)
    IN  CollectKeys(nodes, nodes[base].next)

isSmallestKey(k) ==
    LET s == SearchLE(nodes, top_left, layer_num - 1, k)
    IN  IF ~s.hit THEN ThrowsB(MsgTheKeyNotExist)
        ELSE ReturnsB(nodes[nodes[bot_left].next].key = k)

\* faulty variant of isLargestKey: the walk to the last key stays on the layer of the
\* hit
isLargestKeyNoDescent(k) ==
    LET s == SearchLE(nodes, top_left, layer_num - 1, k)
    IN  IF ~s.hit THEN ThrowsB(MsgTheKeyNotExist)
        ELSE LET last == RightToLast(nodes, s.at)
             IN  ReturnsB(nodes[last].key = k)

isLargestKey(k) ==
    LET s == SearchLE(nodes, top_left, layer_num - 1, k)
    IN  IF ~s.hit THEN ThrowsB(MsgTheKeyNotExist)
        ELSE LET last == RightToLast(nodes, DownToBase(nodes, s.at))
             IN  ReturnsB(nodes[last].key = k)

(* ---------------- construction ---------------- *)

\* SkipList(): bot_leftMost = 1, bot_rightMost = 2, top_leftMost = 3,
\* top_rightMost = 4, in allocation order
Init ==
    /\ nodes = << Node(DefaultKey, DefaultValue, 2, NULL, 3),
                  Node(DefaultKey, DefaultValue, NULL, NULL, 4),
                  Node(DefaultKey, DefaultValue, 4, 1, NULL),
                  Node(DefaultKey, DefaultValue, NULL, 2, NULL) >>
    /\ bot_left = 1
    /\ bot_right = 2
    /\ top_left = 3
    /\ top_right = 4
    /\ listSize = 0
    /\ layer_num = 2
    /\ max_layer_num = InitialMaxLayerNum
    /\ call = [key |-> DefaultKey, value |-> DefaultValue, ret |-> FALSE]
    /\ log = <<>>
    /\ reading = [op |-> "none", key |-> DefaultKey, ok |-> TRUE, err |-> "",
                  num |-> 0, flag |-> FALSE, keys |-> <<>>]
    /\ deleted = <<>>

(* ---------------- insert ---------------- *)

RECURSIVE CeilLog2(_)
CeilLog2(n) == IF n <= 1 THEN 0 ELSE 1 + CeilLog2((n + 1) \div 2)

RECURSIVE FloorLog2(_)
FloorLog2(n) == IF n <= 1 THEN 0 ELSE 1 + FloorLog2(n \div 2)

\* faulty variant of NewMaxLayerNum: the logarithm is rounded down
NewMaxLayerNumFloor(sz, old) ==
    IF sz > CapThreshold THEN 3 * FloorLog2(sz) + 1 ELSE old

\* faulty variant of NewMaxLayerNum: the factor 3 is missing
NewMaxLayerNumNoFactor(sz, old) ==
    IF sz > CapThreshold THEN CeilLog2(sz) + 1 ELSE old

\* max_layer_num after listSize++ (lines 538-541)
NewMaxLayerNum(sz, old) ==
    IF sz > CapThreshold THEN 3 * CeilLog2(sz) + 1 ELSE old

\* faulty variant of IsDuplicate: the key of currentNode is compared, not that of its
\* successor
IsDuplicateOfCurrent(h, cur, k) ==
    h[h[cur].next].next # NULL /\ h[cur].key = k

\* if(currentNode->next->next != nullptr and currentNode->next->key == k)
IsDuplicate(h, cur, k) ==
    h[h[cur].next].next # NULL /\ h[h[cur].next].key = k

\* faulty variants of the promotion loop, one per fault:
\*   "capOffByOne"  the guard is layer_num <= max_layer_num
\*   "capOnFlips"   the guard compares previousFlip, not layer_num, with the cap
\*   "growLate"     the top-layer test comes before previousFlip++
\*   "noLayerCount" layer_num++ is missing
\*   "staleBelow"   below_element = up_element is missing
\*   "spliceAtHead" the scan along the upper layer is missing
RECURSIVE PromoteLoopFaulty(_, _, _, _, _)
PromoteLoopFaulty(fault, st, k, v, cap) ==
    LET guard == CASE fault = "capOffByOne" -> st.ln <= cap
                   [] fault = "capOnFlips" -> st.pf < cap
                   [] OTHER -> st.ln < cap
    IN  IF flipCoin(k, st.pf) /\ guard
        THEN LET pf == st.pf + 1
                 cn == IF fault = "spliceAtHead" THEN st.cul
                       ELSE ScanRightLT(st.h, st.cul, k)
                 ue == Len(st.h) + 1
                 h1 == Append([st.h EXCEPT ![cn].next = ue, ![st.below].up = ue],
                              Node(k, v, st.h[cn].next, st.below, NULL))
                 grow == IF fault = "growLate" THEN (st.ln - 1) = st.pf
                         ELSE (st.ln - 1) = pf
                 ntl == ue + 1
                 ntr == ue + 2
                 h2 == IF grow
                       THEN [ (h1 \o << Node(DefaultKey, DefaultValue, ntr, st.cul, NULL),
                                        Node(DefaultKey, DefaultValue, NULL, st.cur, NULL) >>)
                              EXCEPT ![st.tl].up = ntl, ![st.tr].up = ntr ]
                       ELSE h1
             IN  PromoteLoopFaulty(fault,
                     [h |-> h2,
                      tl |-> IF grow THEN ntl ELSE st.tl,
                      tr |-> IF grow THEN ntr ELSE st.tr,
                      ln |-> IF grow /\ fault # "noLayerCount" THEN st.ln + 1 ELSE st.ln,
                      pf |-> pf,
                      below |-> IF fault = "staleBelow" THEN st.below ELSE ue,
                      cul |-> h2[st.cul].up,
                      cur |-> h2[st.cur].up], k, v, cap)
        ELSE st

PromoteLoopCapOffByOne(st, k, v, cap) == PromoteLoopFaulty("capOffByOne", st, k, v, cap)
PromoteLoopCapOnFlips(st, k, v, cap) == PromoteLoopFaulty("capOnFlips", st, k, v, cap)
PromoteLoopGrowLate(st, k, v, cap) == PromoteLoopFaulty("growLate", st, k, v, cap)
PromoteLoopNoLayerCount(st, k, v, cap) == PromoteLoopFaulty("noLayerCount", st, k, v, cap)
PromoteLoopStaleBelow(st, k, v, cap) == PromoteLoopFaulty("staleBelow", st, k, v, cap)
PromoteLoopSpliceAtHead(st, k, v, cap) == PromoteLoopFaulty("spliceAtHead", st, k, v, cap)

\* the promotion loop (lines 543-571); st holds the locals and the fields the
\* loop writes: h (heap), tl/tr (top_left/top_right), ln (layer_num), pf
\* (previousFlip), below (below_element), cul/cur (current_up_layer_left/right)
RECURSIVE PromoteLoop(_, _, _, _)
PromoteLoop(st, k, v, cap) ==
    IF flipCoin(k, st.pf) /\ st.ln < cap
    THEN LET pf == st.pf + 1
             cn == ScanRightLT(st.h, st.cul, k)
             ue == Len(st.h) + 1
             h1 == Append([st.h EXCEPT ![cn].next = ue, ![st.below].up = ue],
                          Node(k, v, st.h[cn].next, st.below, NULL))
             grow == (st.ln - 1) = pf
             ntl == ue + 1
             ntr == ue + 2
             h2 == IF grow
                   THEN [ (h1 \o << Node(DefaultKey, DefaultValue, ntr, st.cul, NULL),
                                    Node(DefaultKey, DefaultValue, NULL, st.cur, NULL) >>)
                          EXCEPT ![st.tl].up = ntl, ![st.tr].up = ntr ]
                   ELSE h1
         IN  PromoteLoop([h |-> h2,
                          tl |-> IF grow THEN ntl ELSE st.tl,
                          tr |-> IF grow THEN ntr ELSE st.tr,
                          ln |-> IF grow THEN st.ln + 1 ELSE st.ln,
                          pf |-> pf,
                          below |-> ue,
                          cul |-> h2[st.cul].up,
                          cur |-> h2[st.cur].up], k, v, cap)
    ELSE st

Insert(k, v) ==
    LET cur == DescendLT(nodes, top_left, layer_num - 1, k)
    IN  IF IsDuplicate(nodes, cur, k)
        THEN /\ call' = [key |-> k, value |-> v, ret |-> FALSE]
             /\ UNCHANGED <<engine, log>>
        ELSE /\ LET ne == Len(nodes) + 1
                    h0 == Append([nodes EXCEPT ![cur].next = ne],
                                 Node(k, v, nodes[cur].next, NULL, NULL))
                    sz == listSize + 1
                    cap == NewMaxLayerNum(sz, max_layer_num)
                    st == PromoteLoop([h |-> h0, tl |-> top_left, tr |-> top_right,
                                       ln |-> layer_num, pf |-> 0, below |-> ne,
                                       cul |-> h0[bot_left].up,
                                       cur |-> h0[bot_right].up], k, v, cap)
                IN  /\ nodes' = st.h
                    /\ top_left' = st.tl
                    /\ top_right' = st.tr
                    /\ layer_num' = st.ln
                    /\ listSize' = sz
                    /\ max_layer_num' = cap
                    /\ call' = [key |-> k, value |-> v, ret |-> TRUE]
                    /\ log' = Append(log, [key |-> k, value |-> v, cap |-> cap,
                                           layers |-> layer_num,
                                           after |-> st.ln, flips |-> st.pf])
             /\ UNCHANGED <<bot_left, bot_right>>

\* the keys whose insert returned true
InsertedKeys == {log[i].key : i \in 1..Len(log)}

\* any key and value of the small sets, in any order; once MaxInserts keys
\* are in, only re-inserts of present keys
Next ==
    \E k \in Keys, v \in Values :
        /\ listSize < MaxInserts \/ k \in InsertedKeys
        /\ Insert(k, v)
        /\ UNCHANGED <<reading, deleted>>

Spec == Init /\ [][Next]_vars

\* A long run that takes listSize past CapThreshold: the keys 1, 2, 3, ... go
\* in in this order, and the keys of AllHeadsKeys at any moment.
NextChainKey == 1 + Cardinality(InsertedKeys \ AllHeadsKeys)

NextLong ==
    /\ listSize < MaxLongInserts
    /\ \E k \in {NextChainKey} \cup AllHeadsKeys : Insert(k, k + 100)
    /\ UNCHANGED <<reading, deleted>>

SpecLong == Init /\ [][NextLong]_vars

\* Towers of several heights built in every order: any key of TowerKeys,
\* each with the one value k + 100; once MaxTowerInserts keys are in, only
\* re-inserts of present keys.
NextTowers ==
    \E k \in TowerKeys :
        /\ listSize < MaxTowerInserts \/ k \in InsertedKeys
        /\ Insert(k, k + 100)
        /\ UNCHANGED <<reading, deleted>>

SpecTowers == Init /\ [][NextTowers]_vars


(* ---------------- reads and teardown as operations ---------------- *)

NumRead(op, k, r) ==
    [op |-> op, key |-> k, ok |-> r.ok, err |-> r.err,
     num |-> r.val, flag |-> FALSE, keys |-> <<>>]
BoolRead(op, k, r) ==
    [op |-> op, key |-> k, ok |-> r.ok, err |-> r.err,
     num |-> 0, flag |-> r.val, keys |-> <<>>]
SeqRead(op, ks) ==
    [op |-> op, key |-> DefaultKey, ok |-> TRUE, err |-> "",
     num |-> 0, flag |-> FALSE, keys |-> ks]

\* the read operations assign no field and no node
ReadSize ==
    /\ reading' = NumRead("size", DefaultKey, Returns(size))
    /\ UNCHANGED <<engine, call, log, deleted>>
ReadIsEmpty ==
    /\ reading' = BoolRead("isEmpty", DefaultKey, ReturnsB(isEmpty))
    /\ UNCHANGED <<engine, call, log, deleted>>
ReadNumLayers ==
    /\ reading' = NumRead("numLayers", DefaultKey, Returns(numLayers))
    /\ UNCHANGED <<engine, call, log, deleted>>

\* faulty variant of ReadHeight: the hit is stored in layer_num instead of the
\* local height
ReadHeightIntoLayerNum(k) ==
    /\ reading' = NumRead("height", k, height(k))
    /\ layer_num' = IF height(k).ok THEN height(k).val ELSE layer_num
    /\ UNCHANGED <<nodes, top_left, top_right, bot_left, bot_right,
                   listSize, max_layer_num, call, log, deleted>>

ReadHeight(k) ==
    /\ reading' = NumRead("height", k, height(k))
    /\ UNCHANGED <<engine, call, log, deleted>>
ReadFind(k) ==
    /\ reading' = NumRead("find", k, find(k))
    /\ UNCHANGED <<engine, call, log, deleted>>
ReadNextKey(k) ==
    /\ reading' = NumRead("nextKey", k, nextKey(k))
    /\ UNCHANGED <<engine, call, log, deleted>>
ReadPreviousKey(k) ==
    /\ reading' = NumRead("previousKey", k, previousKey(k))
    /\ UNCHANGED <<engine, call, log, deleted>>
ReadIsSmallestKey(k) ==
    /\ reading' = BoolRead("isSmallestKey", k, isSmallestKey(k))
    /\ UNCHANGED <<engine, call, log, deleted>>
ReadIsLargestKey(k) ==
    /\ reading' = BoolRead("isLargestKey", k, isLargestKey(k))
    /\ UNCHANGED <<engine, call, log, deleted>>
ReadAllKeysInOrder ==
    /\ reading' = SeqRead("allKeysInOrder", allKeysInOrder)
    /\ UNCHANGED <<engine, call, log, deleted>>

\* ~SkipList: for each layer from top_left down through the left sentinels'
\* down links (read before the layer is deleted), delete the nodes from the
\* left sentinel through next (read before the node is deleted)
RECURSIVE TeardownFrom(_, _)
TeardownFrom(h, left) ==
    IF left = NULL THEN <<>>
    ELSE NextChain(h, left) \o TeardownFrom(h, h[left].down)

\* faulty variant of Teardown: the walk starts at bot_left
TeardownFromBase == TeardownFrom(nodes, bot_left)

Teardown == TeardownFrom(nodes, top_left)

Destroy ==
    /\ deleted' = Teardown
    /\ UNCHANGED <<engine, call, log, reading>>

\* Inserts, reads and the teardown of a live list; nothing is called on a
\* list that has been torn down.
NextOps ==
    /\ deleted = <<>>
    /\ \/ \E k \in OpsKeys :
             /\ listSize < MaxOpsInserts \/ k \in InsertedKeys
             /\ Insert(k, k + 100)
             /\ UNCHANGED <<reading, deleted>>
       \/ ReadSize
       \/ ReadIsEmpty
       \/ ReadNumLayers
       \/ \E k \in OpsKeys : ReadHeight(k)
       \/ \E k \in OpsKeys : ReadFind(k)
       \/ \E k \in OpsKeys : ReadNextKey(k)
       \/ \E k \in OpsKeys : ReadPreviousKey(k)
       \/ \E k \in OpsKeys : ReadIsSmallestKey(k)
       \/ \E k \in OpsKeys : ReadIsLargestKey(k)
       \/ ReadAllKeysInOrder
       \/ Destroy

SpecOps == Init /\ [][NextOps]_vars

(* ======================================================================= *)
(* Properties                                                              *)
(* ======================================================================= *)

SeqSet(s) == {s[i] : i \in 1..Len(s)}
IsStrictlyIncreasing(s) == \A i \in 1..(Len(s) - 1) : s[i] < s[i + 1]
MinOf(S) == CHOOSE x \in S : \A y \in S : x <= y
MaxOf(S) == CHOOSE x \in S : \A y \in S : y <= x

IsKeyNotFound(r) == ~r.ok /\ r.err \in {MsgTheKeyNotExist, MsgThisKeyNotExist}

\* C1: after any sequence of inserts, size() is the number of insert calls
\* that returned true and allKeysInOrder() is the strictly increasing
\* sequence of exactly the keys whose insert returned true.
C1_SizeAndOrder ==
    /\ size = Len(log)
    /\ IsStrictlyIncreasing(allKeysInOrder)
    /\ SeqSet(allKeysInOrder) = InsertedKeys
    /\ Len(allKeysInOrder) = Cardinality(InsertedKeys)

\* three keys went in out of order, the default key among them, and the last
\* call was a rejected one
C1_Witness ==
    /\ Len(log) >= 3
    /\ log[1].key > log[2].key
    /\ DefaultKey \in InsertedKeys
    /\ ~call.ret

\* C2: a key whose insert(k, v) returned true is found with value v in every
\* later state.
C2_FindReturnsInsertedValue ==
    \A i \in 1..Len(log) : find(log[i].key) = Returns(log[i].value)

\* a tower of height 12 and one of height 1 are present, and the last call
\* was a rejected re-insert of a present key with another value
C2_Witness ==
    /\ \E i, j \in 1..Len(log) :
          /\ height(log[i].key) = Returns(12)
          /\ height(log[j].key) = Returns(1)
    /\ ~call.ret
    /\ \E i \in 1..Len(log) : log[i].key = call.key /\ log[i].value # call.value

\* C3: insert of a key that is already present returns false and changes
\* nothing: size, numLayers and the layer cap are the fields listSize,
\* layer_num and max_layer_num, and allKeysInOrder, every binding and every
\* height are read from the nodes and the corner sentinels, none of which
\* changes.
C3_DuplicateInsertIsNoOp ==
    [][ call'.key \in InsertedKeys =>
          /\ ~call'.ret
          /\ listSize' = listSize
          /\ layer_num' = layer_num
          /\ max_layer_num' = max_layer_num
          /\ nodes' = nodes
          /\ <<top_left, top_right, bot_left, bot_right>>' =
                <<top_left, top_right, bot_left, bot_right>> ]_vars

\* a present key was re-inserted with a value other than its own
C3_Witness ==
    /\ ~call.ret
    /\ \E i \in 1..Len(log) : log[i].key = call.key /\ log[i].value # call.value
    /\ Len(log) >= 2

\* a < b are present with no present key between them
Adjacent(a, b) ==
    /\ a \in InsertedKeys
    /\ b \in InsertedKeys
    /\ a < b
    /\ ~\E c \in InsertedKeys : a < c /\ c < b

\* C4: for present keys a < b with nothing between them, nextKey(a) is b and
\* previousKey(b) is a.
C4_NeighboursAreAdjacent ==
    \A a, b \in Keys :
        Adjacent(a, b) => nextKey(a) = Returns(b) /\ previousKey(b) = Returns(a)

\* an adjacent pair whose towers differ in height, the taller one on the left
C4_Witness ==
    \E a, b \in Keys :
        /\ Adjacent(a, b)
        /\ height(a).val > 1
        /\ height(b).val = 1
        /\ nextKey(a) = Returns(b)

\* C5: nextKey of the largest present key signals the no-successor failure.
C5_NextKeyOfLargestThrows ==
    listSize > 0 => nextKey(MaxOf(InsertedKeys)) = Throws(MsgLargest)

\* C6: previousKey of the smallest present key signals the no-predecessor
\* failure.
C6_PreviousKeyOfSmallestThrows ==
    listSize > 0 => previousKey(MinOf(InsertedKeys)) = Throws(MsgSmallest)

\* C7: for a key that is not present, height, find, nextKey, previousKey,
\* isSmallestKey and isLargestKey all signal key-not-found.
C7_AbsentKeyIsNotFound ==
    \A k \in Keys \ InsertedKeys :
        /\ IsKeyNotFound(height(k))
        /\ IsKeyNotFound(find(k))
        /\ IsKeyNotFound(nextKey(k))
        /\ IsKeyNotFound(previousKey(k))
        /\ IsKeyNotFound(isSmallestKey(k))
        /\ IsKeyNotFound(isLargestKey(k))

\* C8: right after construction numLayers() = 2, size() = 0 and isEmpty();
\* always numLayers() >= 2 and isEmpty() exactly when size() = 0.
C8_LayersAndEmptiness ==
    /\ (log = <<>> => numLayers = 2 /\ size = 0 /\ isEmpty)
    /\ numLayers >= 2
    /\ (isEmpty <=> size = 0)
    /\ (isEmpty <=> log = <<>>)

\* keys are present and layers have been added
C8_Witness == ~isEmpty /\ numLayers > 2 /\ size >= 2

\* the number of consecutive true results of flipCoin(k, 0), flipCoin(k, 1),
\* ..., counted up to n
RECURSIVE HeadsFrom(_, _, _)
HeadsFrom(k, j, n) ==
    IF j < n /\ flipCoin(k, j) THEN 1 + HeadsFrom(k, j + 1, n) ELSE 0
Heads(k, n) == HeadsFrom(k, 0, n)
Min2(a, b) == IF a <= b THEN a ELSE b

\* C9 as stated: height(k) is 1 plus the number of consecutive true flips,
\* capped by the layer limit in force when k was inserted, whatever was
\* inserted before k.  The cap is read either as max_layer_num or as the
\* tallest tower max_layer_num allows, max_layer_num - 1.
C9_HeightIsFlipsCapped ==
    \A i \in 1..Len(log) :
        LET k == log[i].key
            want == 1 + Heads(k, log[i].cap)
        IN  \/ height(k) = Returns(Min2(want, log[i].cap))
            \/ height(k) = Returns(Min2(want, log[i].cap - 1))

\* C9 amended: height(k) is 1 if numLayers() had reached max_layer_num when
\* k was inserted; otherwise 1 plus the number of consecutive true flips,
\* capped at max_layer_num - 1.
C9_HeightIsFlipsCappedUnlessFull ==
    \A i \in 1..Len(log) :
        LET k == log[i].key
            want == 1 + Heads(k, log[i].cap)
        IN  height(k) = Returns(IF log[i].layers >= log[i].cap THEN 1
                                ELSE Min2(want, log[i].cap - 1))

\* a key went in when the layers were at the cap and stayed at height 1
\* though its first flip is true; another was truncated at the cap; a third
\* stopped at its first false flip
C9_Witness ==
    /\ \E i \in 1..Len(log) :
          /\ log[i].layers = log[i].cap
          /\ flipCoin(log[i].key, 0)
          /\ height(log[i].key) = Returns(1)
    /\ \E i \in 1..Len(log) :
          /\ log[i].layers < log[i].cap
          /\ height(log[i].key) = Returns(log[i].cap - 1)
    /\ \E i \in 1..Len(log) :
          /\ log[i].layers < log[i].cap
          /\ height(log[i].key).val \in 2..3

\* C10: for a present key k, isSmallestKey(k) is true iff k is the least
\* present key and isLargestKey(k) is true iff k is the greatest.
C10_ExtremalChecks ==
    \A k \in InsertedKeys :
        /\ isSmallestKey(k) = ReturnsB(k = MinOf(InsertedKeys))
        /\ isLargestKey(k) = ReturnsB(k = MaxOf(InsertedKeys))

\* the greatest key is lower than a smaller key's tower, so the searches meet
\* their keys on different layers
C10_Witness ==
    /\ Len(log) >= 3
    /\ height(MaxOf(InsertedKeys)) = Returns(1)
    /\ \E k \in InsertedKeys : k # MaxOf(InsertedKeys) /\ height(k).val > 2

(* ---------------- the layers ---------------- *)

\* the left sentinels from the top layer down, and the chain of layer i
\* (0 is the base) from its left sentinel to its right sentinel
LeftSentinels == DownChain(nodes, top_left)
NumChains == Len(LeftSentinels)
LayerChain(i) == NextChain(nodes, LeftSentinels[NumChains - i])
\* the tower entries of layer i: the chain without its two sentinels
LayerEntries(i) ==
    LET c == LayerChain(i) IN {c[j] : j \in 2..(Len(c) - 1)}
LayerKeys(i) == {nodes[n].key : n \in LayerEntries(i)}

\* C11: while numLayers() is below the layer cap, the topmost layer holds its
\* two sentinels and no key.
C11_TopLayerIsKeyFree ==
    layer_num < max_layer_num =>
        /\ NextChain(nodes, top_left) = <<top_left, top_right>>
        /\ NumChains = layer_num

\* promotions have reached the top layer and added layers, and the cap has
\* been raised above a list that had filled it
C11_Witness ==
    /\ layer_num < max_layer_num
    /\ layer_num = InitialMaxLayerNum
    /\ \E i \in 1..Len(log) : log[i].after > log[i].layers /\ log[i].layers > 2

\* the entry of key k on layer j
EntryOf(j, k) == CHOOSE m \in LayerEntries(j) : nodes[m].key = k

\* C12: a key with an entry on layer i > 0 has exactly one entry on every
\* layer 0..i, and the down link of its entry on layer j in 1..i is its entry
\* on layer j - 1.
C12_TowersHaveNoGaps ==
    \A i \in 1..(NumChains - 1) :
        \A k \in LayerKeys(i) :
            /\ \A j \in 0..i :
                  Cardinality({m \in LayerEntries(j) : nodes[m].key = k}) = 1
            /\ \A j \in 1..i :
                  nodes[EntryOf(j, k)].down = EntryOf(j - 1, k)

\* a tower of four entries stands between a lower tower that went in after
\* it and a key of the base layer only
C12_Witness ==
    /\ Len(log) >= 3
    /\ NumChains > 4
    /\ \E i, j \in 1..Len(log) :
          /\ i < j
          /\ log[j].key < log[i].key
          /\ log[i].key \in LayerKeys(3)
          /\ log[j].key \in LayerKeys(1)
    /\ \E k \in LayerKeys(0) : k \notin LayerKeys(1)

\* the keys of the chain of layer i, sentinels left out, in chain order
LayerKeySeq(i) ==
    LET c == LayerChain(i) IN [j \in 1..(Len(c) - 2) |-> nodes[c[j + 1]].key]

\* C13: the chain of every layer runs from its left sentinel to its right
\* sentinel through strictly increasing keys, and the base layer lists every
\* inserted key exactly once.
C13_LayersAreSorted ==
    /\ \A i \in 0..(NumChains - 1) :
          /\ Len(LayerChain(i)) >= 2
          /\ IsStrictlyIncreasing(LayerKeySeq(i))
    /\ LayerChain(0)[1] = bot_left
    /\ LayerChain(0)[Len(LayerChain(0))] = bot_right
    /\ LayerChain(NumChains - 1)[Len(LayerChain(NumChains - 1))] = top_right
    /\ SeqSet(LayerKeySeq(0)) = InsertedKeys
    /\ Len(LayerKeySeq(0)) = Len(log)

\* an upper layer holds three keys, and the one in the middle went in last
C13_Witness ==
    \E i \in 1..(NumChains - 1) :
        /\ Len(LayerKeySeq(i)) >= 3
        /\ LayerKeySeq(i)[2] = log[Len(log)].key

ReadOps == {"size", "isEmpty", "numLayers", "height", "find", "nextKey",
            "previousKey", "isSmallestKey", "isLargestKey", "allKeysInOrder"}

\* C14: a read operation leaves the engine as it was (every node, the four
\* corner sentinels, listSize, layer_num and max_layer_num), whether it
\* returns or signals a failure.
C14_ReadsChangeNothing ==
    [][ (reading' # reading /\ reading'.op \in ReadOps) => engine' = engine ]_vars

\* a read of a list with towers has signalled a failure
C14_Witness ==
    /\ reading.op \in ReadOps
    /\ ~reading.ok
    /\ layer_num > 3
    /\ listSize >= 2

\* C18: the teardown deletes every node of the heap, sentinels and tower
\* entries of every layer, and none twice.
C18_TeardownReleasesEachNodeOnce ==
    deleted # <<>> =>
        /\ SeqSet(deleted) = DOMAIN nodes
        /\ Len(deleted) = Len(nodes)

\* a list of three keys and at least four layers has been torn down
C18_Witness ==
    /\ deleted # <<>>
    /\ listSize >= 3
    /\ layer_num >= 4

\* C15: a key inserted when numLayers() already equals the (recomputed) layer
\* cap stays in the base layer, height 1, whatever its flips; and a key whose
\* promotions bring numLayers() to the cap is promoted no further: its tower
\* ends one layer below the empty top.
C15_CapStopsPromotion ==
    \A i \in 1..Len(log) :
        LET e == log[i] IN
        /\ e.layers = e.cap =>
              /\ height(e.key) = Returns(1)
              /\ e.flips = 0
              /\ e.after = e.layers
        /\ (e.layers < e.cap /\ e.after >= e.cap) =>
              /\ e.after = e.cap
              /\ e.flips = e.cap - 2
              /\ height(e.key) = Returns(e.cap - 1)

\* a key whose first flip is true went in at the cap; another was stopped by
\* the cap while its next flip was true; a third went in right after the
\* recomputation had raised the cap above the layers, and was promoted
C15_Witness ==
    /\ \E i \in 1..Len(log) :
          log[i].layers = log[i].cap /\ flipCoin(log[i].key, 0)
    /\ \E i \in 1..Len(log) :
          /\ log[i].layers < log[i].cap
          /\ log[i].after = log[i].cap
          /\ flipCoin(log[i].key, log[i].flips)
    /\ \E i \in 2..Len(log) :
          /\ log[i].layers = log[i - 1].cap
          /\ log[i].cap > log[i - 1].cap
          /\ log[i].flips > 0

\* the least c with 2^c >= n
CeilLog2Of(n) ==
    CHOOSE c \in 0..20 : Pow2(c) >= n /\ \A d \in 0..(c - 1) : Pow2(d) < n

\* C16: the layer cap never decreases; it is 13 while size() <= 16 and
\* 3 * ceil(log2(size())) + 1 once size() > 16.
C16_CapIsMonotone ==
    [][ /\ max_layer_num' >= max_layer_num
        /\ listSize' <= 16 => max_layer_num' = 13
        /\ listSize' > 16 => max_layer_num' = 3 * CeilLog2Of(listSize') + 1 ]_vars

\* the seventeenth key has gone in and the cap is 16
C16_Witness ==
    /\ listSize > 16
    /\ max_layer_num = 16
    /\ log[Len(log)].cap > log[1].cap

\* C17: the promotion loop of every insert ends: it makes at most
\* max_layer_num - 2 promotions and adds at most max_layer_num - 2 layers,
\* also for a key whose every flip is true, which it leaves with numLayers()
\* at the cap.
C17_PromotionLoopIsBounded ==
    \A i \in 1..Len(log) :
        LET e == log[i] IN
        /\ e.flips <= e.cap - 2
        /\ e.after - e.layers <= e.cap - 2
        /\ e.after - e.layers <= e.flips
        /\ e.key \in AllHeadsKeys => e.after = e.cap

\* a key whose every flip is true went into the empty list and added the
\* most layers one insert can; another went in after the cap was raised
C17_Witness ==
    /\ \E i \in 1..Len(log) :
          /\ log[i].key \in AllHeadsKeys
          /\ log[i].layers = 2
          /\ log[i].after - log[i].layers = log[i].cap - 2
    /\ \E i \in 1..Len(log) :
          /\ log[i].key \in AllHeadsKeys
          /\ log[i].cap > InitialMaxLayerNum
          /\ log[i].after > log[i].layers

\* the height of the tallest tower, 0 for the empty list
TallestTower ==
    IF InsertedKeys = {} THEN 0
    ELSE MaxOf({height(k).val : k \in InsertedKeys})

\* C19: numLayers() is max(2, 1 + the height of the tallest tower); exactly
\* one key-free layer lies above the tallest tower; numLayers() never
\* decreases from one insert to the next.
C19_OneEmptyLayerOnTop ==
    /\ numLayers = (IF TallestTower + 1 > 2 THEN TallestTower + 1 ELSE 2)
    /\ NumChains = numLayers
    /\ LayerKeys(NumChains - 1) = {}
    /\ NumChains > 2 => LayerKeys(NumChains - 2) # {}
    /\ \A i \in 1..Len(log) :
          /\ log[i].layers <= log[i].after
          /\ log[i].layers = (IF i = 1 THEN 2 ELSE log[i - 1].after)
    /\ numLayers = (IF log = <<>> THEN 2 ELSE log[Len(log)].after)

\* the tallest tower went in first and lower ones after it, and the list has
\* grown by more than one layer in one insert
C19_Witness ==
    /\ Len(log) >= 3
    /\ height(log[1].key).val = TallestTower
    /\ log[1].after - log[1].layers >= 2
    /\ \E i \in 2..Len(log) : height(log[i].key).val \in 2..(TallestTower - 1)

\* C20: numLayers() <= max_layer_num, and so height(k) <= max_layer_num - 1
\* for every present key.
C20_LayersWithinCap ==
    /\ numLayers <= max_layer_num
    /\ \A k \in InsertedKeys :
          height(k).ok /\ height(k).val <= max_layer_num - 1

\* the layers are at the raised cap and a tower is as tall as it allows
C20_Witness ==
    /\ numLayers = max_layer_num
    /\ max_layer_num > InitialMaxLayerNum
    /\ \E k \in InsertedKeys : height(k) = Returns(max_layer_num - 1)

====
